---- MODULE Spec2Model ----
(***************************************************************************)
(* Model of affiliate_ai_quality/src/orchestrator.py: the schema loader,   *)
(* the input validator, the placeholder scoring engine                     *)
(* (mock_evaluate_content) and the command-line driver main().             *)
(*                                                                         *)
(* JSON values are modelled by their shape: a string by its length (and,   *)
(* for urls, by a token), an object by the fields it has.  Files are       *)
(* modelled by what reading them yields.                                   *)
(***************************************************************************)
EXTENDS Integers, Sequences, FiniteSets, TLC

VARIABLES
    pc,             \* position of main(): the statement it executes next
    args,           \* parsed command line: validate_only, output, verbose
    files,          \* what the three files hold: input_schema, output_schema, input
    out_openable,   \* whether open(args.output, 'w') succeeds
    input_schema,   \* main's local input_schema  (None before it is loaded)
    output_schema,  \* main's local output_schema (None before it is loaded)
    input_data,     \* main's local input_data    (None before it is parsed)
    valid,          \* how the call validate_input(input_data, input_schema) ended
    out_valid,      \* how jsonschema.validate(result, output_schema) ended
    result,         \* main's local result (None before mock_evaluate_content returns)
    stdout,         \* what was printed to standard output, in order
    stderr,         \* what was printed to the error stream, in order
    out_file,       \* the output file: untouched, partial or full
    exit_kind,      \* how the run ended: running, return, sys_exit, exception
    exit_status,    \* the process exit status once the run has ended
    now,            \* the system clock: POSIX time in seconds
    tz,             \* the local time zone of the process
    ev_doc,         \* argument of a direct call of mock_evaluate_content
    ev_ret,         \* what that call returned (None before the call)
    ids,            \* the audit ids create_audit_id returned, each with its instant
    calls           \* concurrent calls of mock_evaluate_content: position and locals

main_vars == <<pc, args, files, out_openable, input_schema, output_schema,
               input_data, valid, out_valid, result, stdout, stderr, out_file,
               exit_kind, exit_status>>
clock_vars == <<now, tz>>
ev_vars == <<ev_doc, ev_ret>>
call_vars == <<ids, calls>>
vars == <<main_vars, clock_vars, ev_vars, call_vars>>

(***************************************************************************)
(* Bounds of the model.                                                    *)
(***************************************************************************)
MaxBodyLen == 2000      \* longest content.body of a direct evaluation
MaxLinks == 6           \* most asp_links of a direct evaluation
MaxClock == 1           \* clock readings 0..MaxClock

None == [kind |-> "None"]

(***************************************************************************)
(* JSON documents.                                                         *)
(***************************************************************************)
\* A url that holds a lone surrogate ("\ud800" in the JSON text): a Python
\* str that the utf-8 codec refuses to encode.
SurrogateUrl == "u_d800"
PlainUrls == {"u1", "u2"}
NoUrl == "<absent>"

Utf8Encodable(url) == url # SurrogateUrl

JStr(n) == [kind |-> "string", len |-> n]
JAbsent == [kind |-> "absent", len |-> 0]
JNumber == [kind |-> "number", len |-> 0]

Link(u, p, q) == [url |-> u, product_name |-> p, priority |-> q]
GoodLink(u) == Link(u, "string", "integer")

Content(k, t, b, m) == [kind |-> k, title |-> t, body |-> b, meta |-> m]
NoContent == Content("absent", "absent", JAbsent, "absent")
GoodContent(n) == Content("object", "string", JStr(n), "complete")

Links(k, n, items) == [kind |-> k, len |-> n, items |-> items]
NoLinks == Links("absent", 0, <<>>)
LinkArray(items) == Links("array", Len(items), items)
LinkString(n) == Links("string", n, <<>>)

Document(c, l) == [kind |-> "object", content |-> c, asp_links |-> l]
\* a JSON text that is not an object, such as []
ArrayDocument == [kind |-> "array", content |-> NoContent, asp_links |-> NoLinks]

(***************************************************************************)
(* Schemas.  A schema file that parses holds one of these JSON values.     *)
(***************************************************************************)
InvalidSchema == [kind |-> "invalid"]            \* JSON, but no JSON Schema: {"type": 5}
AcceptAll == [kind |-> "accept_all"]             \* the schema {}
RejectAll == [kind |-> "reject_all"]             \* the schema {"not": {}}
AuditInputSchema == [kind |-> "audit_input_schema"]
AuditOutputSchema == [kind |-> "audit_output_schema"]

\* The input schema: content and asp_links required; content an object with
\* title, body (strings) and meta (an object with its three fields); asp_links
\* an array of objects with url, product_name (strings), priority (integer).
LinkConforms(link) ==
    /\ link.url # NoUrl
    /\ link.product_name = "string"
    /\ link.priority = "integer"

ContentConforms(c) ==
    /\ c.kind = "object"
    /\ c.title = "string"
    /\ c.body.kind = "string"
    /\ c.meta = "complete"

\* mutant: the items are checked, the type of asp_links is not
AspLinksConform_NoType(l) ==
    \A i \in 1..Len(l.items) : LinkConforms(l.items[i])

AspLinksConform(l) ==
    /\ l.kind = "array"
    /\ \A i \in 1..Len(l.items) : LinkConforms(l.items[i])

ConformsInputSchema(d) ==
    /\ d.kind = "object"
    /\ d.content.kind # "absent"
    /\ d.asp_links.kind # "absent"
    /\ ContentConforms(d.content)
    /\ AspLinksConform(d.asp_links)

(***************************************************************************)
(* The scoring engine: mock_evaluate_content.                              *)
(***************************************************************************)
Min(a, b) == IF a <= b THEN a ELSE b

(***************************************************************************)
(* The clock.  datetime.now() reads the system clock (POSIX seconds) and   *)
(* returns the naive local date and time of the process's time zone.       *)
(***************************************************************************)
\* A time zone: its offset from UTC in seconds before and from one transition.
Zone(name, transition, before, after) ==
    [name |-> name, transition |-> transition,
     offset_before |-> before, offset_after |-> after]
UTC == Zone("UTC", 0, 0, 0)
\* America/New_York around the end of daylight saving time in 2026: EDT
\* (UTC-4) until 2026-11-01T06:00:00Z, EST (UTC-5) from then on.
NewYork == Zone("America/New_York", 1793512800, -14400, -18000)
Zones == {UTC, NewYork}

utc_offset(t, zone) ==
    IF t < zone.transition THEN zone.offset_before ELSE zone.offset_after

\* The proleptic Gregorian date of a day number (days since 1970-01-01).
civil_from_days(z) ==
    LET n == z + 719468
        era == n \div 146097
        doe == n % 146097
        yoe == (doe - doe \div 1460 + doe \div 36524 - doe \div 146096) \div 365
        doy == doe - (365 * yoe + yoe \div 4 - yoe \div 100)
        mp == (5 * doy + 2) \div 153
        d == doy - (153 * mp + 2) \div 5 + 1
        m == IF mp < 10 THEN mp + 3 ELSE mp - 9
        y == yoe + era * 400 + (IF m <= 2 THEN 1 ELSE 0)
    IN  [year |-> y, month |-> m, day |-> d]

\* datetime.now() at POSIX time t in the zone: the fields of the local time
datetime_now(t, zone) ==
    LET local == t + utc_offset(t, zone)
        date == civil_from_days(local \div 86400)
        secs == local % 86400
    IN  [year |-> date.year, month |-> date.month, day |-> date.day,
         hour |-> secs \div 3600, minute |-> (secs % 3600) \div 60,
         second |-> secs % 60]

\* the decimal digits of a natural number, without padding
RECURSIVE Decimal(_)
Decimal(n) == IF n < 10 THEN <<n>> ELSE Decimal(n \div 10) \o <<n % 10>>

\* two decimal digits, zero-padded (%m, %d, %H, %M, %S)
TwoDigits(n) == <<n \div 10, n % 10>>

\* dt.strftime('%Y%m%d%H%M%S'): the characters, here all digits
strftime(dt) ==
    Decimal(dt.year) \o TwoDigits(dt.month) \o TwoDigits(dt.day)
        \o TwoDigits(dt.hour) \o TwoDigits(dt.minute) \o TwoDigits(dt.second)

AuditPrefixLen == 6     \* len("audit_")

\* f"audit_{datetime.now().strftime('%Y%m%d%H%M%S')}" for the reading dt of
\* datetime.now()
create_audit_id(dt) ==
    [kind |-> "string", prefix |-> "audit_", digits |-> strftime(dt)]

\* len(input_data.get('content', {}).get('body', ''))
content_length(d) ==
    IF d.content.kind = "absent" \/ d.content.body.kind = "absent"
    THEN 0
    ELSE d.content.body.len

\* len(input_data.get('asp_links', []))
asp_links_count(d) ==
    IF d.asp_links.kind = "absent" THEN 0 ELSE d.asp_links.len

\* The inputs on which the body of mock_evaluate_content raises: .get on a
\* value that is no dict, len() of a number, link["url"] on a character of a
\* string or on a link without url.
EvalRaises(d) ==
    \/ d.kind # "object"
    \/ d.content.kind \notin {"absent", "object"}
    \/ d.content.kind = "object" /\ d.content.body.kind = "number"
    \/ d.asp_links.kind = "string" /\ d.asp_links.len > 0
    \/ d.asp_links.kind = "array" /\
           \E i \in 1..Len(d.asp_links.items) : d.asp_links.items[i].url = NoUrl

\* mutant: the remainder taken where the quotient is meant
base_score_remainder(d) == Min(80, content_length(d) % 20)

\* mutant: the content-length contribution capped at 100 instead of 80
base_score_cap100(d) == Min(100, content_length(d) \div 20)

base_score(d) == Min(80, content_length(d) \div 20)
link_score(d) == Min(20, asp_links_count(d) * 5)
total_score(d) == base_score(d) + link_score(d)

\* mutant: the GOOD threshold tested with > instead of >=
grade_of_strict80(total) ==
    IF total >= 114 THEN "ELITE"
    ELSE IF total >= 100 THEN "EXCELLENT"
    ELSE IF total > 80 THEN "GOOD"
    ELSE IF total >= 60 THEN "FAIR"
    ELSE "POOR"

grade_of(total) ==
    IF total >= 114 THEN "ELITE"
    ELSE IF total >= 100 THEN "EXCELLENT"
    ELSE IF total >= 80 THEN "GOOD"
    ELSE IF total >= 60 THEN "FAIR"
    ELSE "POOR"

\* mutant: eligibility granted from EXCELLENT upwards
auto_publish_eligible_from100(total) == total >= 100

auto_publish_eligible(total) == total >= 114

overall_score(d) ==
    [total |-> total_score(d),
     grade |-> grade_of(total_score(d)),
     auto_publish_eligible |-> auto_publish_eligible(total_score(d))]

\* mutant: content_quality without its cap
detailed_scores_uncapped(d) ==
    [seo_optimization |-> Min(15, total_score(d) \div 8),
     content_quality |-> content_length(d) \div 50,
     affiliate_integration |-> Min(20, asp_links_count(d) * 4),
     link_validity |-> Min(15, asp_links_count(d) * 3),
     user_value |-> Min(20, content_length(d) \div 40),
     compliance |-> 8,
     conversion_potential |-> Min(15, asp_links_count(d) * 3),
     technical_quality |-> 4]

detailed_scores(d) ==
    [seo_optimization |-> Min(15, total_score(d) \div 8),
     content_quality |-> Min(20, content_length(d) \div 50),
     affiliate_integration |-> Min(20, asp_links_count(d) * 4),
     link_validity |-> Min(15, asp_links_count(d) * 3),
     user_value |-> Min(20, content_length(d) \div 40),
     compliance |-> 8,
     conversion_potential |-> Min(15, asp_links_count(d) * 3),
     technical_quality |-> 4]

improvements ==
    << [category |-> "seo",
        severity |-> "minor",
        description |-> "Consider adding more targeted keywords",
        impact_points |-> 3] >>

\* mutant: the entries emitted in reverse order
link_validation_results_reversed(d) ==
    [i \in 1..Len(d.asp_links.items) |->
        [original_url |-> d.asp_links.items[Len(d.asp_links.items) + 1 - i].url,
         status |-> "valid",
         redirect_count |-> 0,
         response_time_ms |-> 250]]

link_validation_results(d) ==
    [i \in 1..Len(d.asp_links.items) |->
        [original_url |-> d.asp_links.items[i].url,
         status |-> "valid",
         redirect_count |-> 0,
         response_time_ms |-> 250]]

metadata(d) ==
    [evaluator_version |-> "1.0.0",
     processing_time_seconds |-> [kind |-> "number", tenths |-> 12],  \* 1.2
     ai_model_used |-> "mock-evaluator",
     content_length |-> content_length(d)]

\* The returned dict, or the exception the call ends with.
mock_evaluate_content(d, t) ==
    IF EvalRaises(d)
    THEN [kind |-> "raise"]
    ELSE [kind |-> "report",
          audit_id |-> create_audit_id(t),
          timestamp |-> [kind |-> "string", iso |-> t],
          overall_score |-> overall_score(d),
          detailed_scores |-> detailed_scores(d),
          improvements |-> improvements,
          link_validation_results |-> link_validation_results(d),
          metadata |-> metadata(d)]

(***************************************************************************)
(* The output schema (docs/audit_output_schema.json), from the data model  *)
(* of the AuditReport: the seven fields, the range of total, the enums,    *)
(* the caps of the eight sub-scores and the non-negative counts.           *)
(***************************************************************************)
ReportFields ==
    {"audit_id", "timestamp", "overall_score", "detailed_scores", "improvements",
     "link_validation_results", "metadata"}
Grades == {"POOR", "FAIR", "GOOD", "EXCELLENT", "ELITE"}
Severities == {"minor", "moderate", "critical"}
LinkStatuses == {"valid", "invalid", "redirect", "timeout"}

OverallConforms(o) ==
    /\ o.total \in 0..120
    /\ o.grade \in Grades
    /\ o.auto_publish_eligible \in BOOLEAN

DetailedConforms(s) ==
    /\ s.seo_optimization \in 0..15
    /\ s.content_quality \in 0..20
    /\ s.affiliate_integration \in 0..20
    /\ s.link_validity \in 0..15
    /\ s.user_value \in 0..20
    /\ s.compliance \in 0..8
    /\ s.conversion_potential \in 0..15
    /\ s.technical_quality \in 0..4

ImprovementConforms(m) ==
    /\ m.severity \in Severities
    /\ m.impact_points \in Int

LinkResultConforms(l) ==
    /\ l.status \in LinkStatuses
    /\ l.redirect_count \in Nat
    /\ l.response_time_ms \in Nat

MetadataConforms(m) ==
    /\ m.processing_time_seconds.kind = "number"
    /\ m.processing_time_seconds.tenths >= 0
    /\ m.content_length \in Nat

ConformsOutputSchema(r) ==
    /\ ReportFields \subseteq DOMAIN r
    /\ r.audit_id.kind = "string"
    /\ r.timestamp.kind = "string"
    /\ OverallConforms(r.overall_score)
    /\ DetailedConforms(r.detailed_scores)
    /\ \A i \in 1..Len(r.improvements) : ImprovementConforms(r.improvements[i])
    /\ \A i \in 1..Len(r.link_validation_results) :
           LinkResultConforms(r.link_validation_results[i])
    /\ MetadataConforms(r.metadata)

(***************************************************************************)
(* jsonschema.validate and validate_input.                                 *)
(***************************************************************************)
Conforms(instance, schema) ==
    CASE schema.kind = "accept_all" -> TRUE
      [] schema.kind = "reject_all" -> FALSE
      [] schema.kind = "audit_input_schema" -> ConformsInputSchema(instance)
      [] schema.kind = "audit_output_schema" -> ConformsOutputSchema(instance)

\* jsonschema.validate(instance=..., schema=...): it checks the schema first
\* and raises SchemaError for a schema that is no JSON Schema, then raises
\* ValidationError for an instance that does not conform.
jsonschema_validate(instance, schema) ==
    IF schema.kind = "invalid" THEN "SchemaError"
    ELSE IF Conforms(instance, schema) THEN "ok"
    ELSE "ValidationError"

\* How validate_input ends: it returns True, returns False (ValidationError is
\* caught), or ends with the exception it does not catch.
validate_input(data, schema) ==
    CASE jsonschema_validate(data, schema) = "ok" -> "True"
      [] jsonschema_validate(data, schema) = "ValidationError" -> "False"
      [] OTHER -> "raised"

\* What validate_input prints to the error stream.
validate_input_stderr(data, schema) ==
    IF jsonschema_validate(data, schema) = "ValidationError"
    THEN <<"Input validation error">>
    ELSE <<>>

(***************************************************************************)
(* Direct calls of mock_evaluate_content, as the tests make them.          *)
(***************************************************************************)
EvalBodyLens == {n \in 0..MaxBodyLen : n % 10 \in {0, 9}}

LinkSeqs(urls, max) == UNION {[1..k -> {GoodLink(u) : u \in urls}] : k \in 0..max}

\* Documents that conform to the input schema.
ValidEvalDocuments ==
    {Document(GoodContent(n), LinkArray(s)) :
        n \in EvalBodyLens, s \in LinkSeqs(PlainUrls, MaxLinks)}

\* Documents that lack a field the engine reads through .get with a default.
PartialEvalDocuments ==
    {Document(c, LinkArray(s)) :
        c \in {NoContent, Content("object", "string", JAbsent, "complete")},
        s \in LinkSeqs(PlainUrls, MaxLinks)}
    \cup {Document(GoodContent(n), NoLinks) : n \in EvalBodyLens}

\* Documents on which the engine raises.
RaisingEvalDocuments ==
    {ArrayDocument,
     Document(Content("object", "string", JNumber, "complete"), LinkArray(<<>>)),
     Document(GoodContent(0), LinkString(15)),
     Document(GoodContent(0), LinkArray(<<Link(NoUrl, "string", "integer")>>))}

EvalDocuments == ValidEvalDocuments \cup PartialEvalDocuments \cup RaisingEvalDocuments

MainIdle ==
    /\ pc = "not_run"
    /\ args = [validate_only |-> FALSE, output |-> FALSE, verbose |-> FALSE]
    /\ files = [input_schema |-> None, output_schema |-> None, input |-> None]
    /\ out_openable = TRUE
    /\ input_schema = None
    /\ output_schema = None
    /\ input_data = None
    /\ valid = "pending"
    /\ out_valid = "pending"
    /\ result = None
    /\ stdout = <<>>
    /\ stderr = <<>>
    /\ out_file = "untouched"
    /\ exit_kind = "running"
    /\ exit_status = -1

\* no audit id generated and no concurrent call made
NoCalls ==
    /\ ids = <<>>
    /\ calls = <<>>

InitEvaluate ==
    /\ MainIdle
    /\ now = 0
    /\ tz = UTC
    /\ ev_doc \in EvalDocuments
    /\ ev_ret = None
    /\ NoCalls

\* result = mock_evaluate_content(doc)
Evaluate ==
    /\ ev_ret = None
    /\ ev_ret' = mock_evaluate_content(ev_doc, datetime_now(now, tz))
    /\ UNCHANGED <<main_vars, clock_vars, ev_doc, call_vars>>

NextEvaluate == Evaluate

SpecEvaluate == InitEvaluate /\ [][NextEvaluate]_vars

(***************************************************************************)
(* Properties of the scoring engine, checked under SpecEvaluate.           *)
(***************************************************************************)
MaxTotal == 120         \* totals 0..MaxTotal of the grade table

Returned == ev_ret.kind = "report"

\* The document as the claims read it: the length of content.body (an absent
\* body counts as the empty string) and the number of asp_links.
BodyLength == IF ev_doc.content.body.kind = "string" THEN ev_doc.content.body.len ELSE 0
LinkCount == Len(ev_doc.asp_links.items)

\* C6: total = min(80, content_length // 20) + min(20, link_count * 5), an
\* integer in [0,100]; body length 2000 with one link gives 85, an empty body
\* with no link gives 0; metadata.content_length is the body length.
C6_TotalFormula ==
    Returned =>
        LET b == IF BodyLength \div 20 < 80 THEN BodyLength \div 20 ELSE 80
            l == IF LinkCount * 5 < 20 THEN LinkCount * 5 ELSE 20
        IN  /\ ev_ret.overall_score.total = b + l
            /\ ev_ret.overall_score.total \in 0..100
            /\ (BodyLength = 2000 /\ LinkCount = 1) => ev_ret.overall_score.total = 85
            /\ (BodyLength = 0 /\ LinkCount = 0) => ev_ret.overall_score.total = 0
            /\ ev_ret.metadata.content_length = BodyLength

C6_Witness ==
    /\ Returned
    /\ BodyLength = 2000
    /\ LinkCount = 1
    /\ ev_ret.overall_score.total = 85

\* The threshold table of the grades, as the specification states it.
GradeTable(t) ==
    CASE t >= 114 -> "ELITE"
      [] t >= 100 /\ t <= 113 -> "EXCELLENT"
      [] t >= 80 /\ t <= 99 -> "GOOD"
      [] t >= 60 /\ t <= 79 -> "FAIR"
      [] t <= 59 -> "POOR"

\* C7: the grade of every report is the threshold function of its total
\* (>= 114 ELITE, >= 100 EXCELLENT, >= 80 GOOD, >= 60 FAIR, else POOR), and the
\* grading rule agrees with the table on every total, the boundaries included.
C7_GradeThresholds ==
    /\ Returned => ev_ret.overall_score.grade = GradeTable(ev_ret.overall_score.total)
    /\ \A t \in 0..MaxTotal : grade_of(t) = GradeTable(t)
    /\ grade_of(114) = "ELITE" /\ grade_of(113) = "EXCELLENT"
    /\ grade_of(100) = "EXCELLENT" /\ grade_of(99) = "GOOD"
    /\ grade_of(80) = "GOOD" /\ grade_of(79) = "FAIR"
    /\ grade_of(60) = "FAIR" /\ grade_of(59) = "POOR"

C7_Witness ==
    /\ Returned
    /\ ev_ret.overall_score.total = 80
    /\ ev_ret.overall_score.grade = "GOOD"

\* C8: auto_publish_eligible is true iff the grade is ELITE iff total >= 114;
\* no report graded EXCELLENT, GOOD, FAIR or POOR is eligible.
C8_AutoPublishIffElite ==
    /\ Returned =>
          /\ ev_ret.overall_score.auto_publish_eligible
                <=> ev_ret.overall_score.grade = "ELITE"
          /\ ev_ret.overall_score.grade = "ELITE"
                <=> ev_ret.overall_score.total >= 114
          /\ ev_ret.overall_score.grade \in {"EXCELLENT", "GOOD", "FAIR", "POOR"}
                => ~ev_ret.overall_score.auto_publish_eligible
    /\ \A t \in 0..MaxTotal :
          /\ auto_publish_eligible(t) <=> grade_of(t) = "ELITE"
          /\ grade_of(t) = "ELITE" <=> t >= 114

C8_Witness ==
    /\ Returned
    /\ ev_ret.overall_score.total = 100
    /\ ev_ret.overall_score.grade = "EXCELLENT"
    /\ ~ev_ret.overall_score.auto_publish_eligible

\* C9: link_validation_results has one entry per input link, in the input
\* order, each with the link's url, status valid and redirect_count 0.
C9_LinkResults ==
    Returned =>
        /\ Len(ev_ret.link_validation_results) = LinkCount
        /\ \A i \in 1..LinkCount :
              /\ ev_ret.link_validation_results[i].original_url
                    = ev_doc.asp_links.items[i].url
              /\ ev_ret.link_validation_results[i].status = "valid"
              /\ ev_ret.link_validation_results[i].redirect_count = 0

C9_Witness ==
    /\ Returned
    /\ LinkCount = 3
    /\ ev_ret.link_validation_results[1].original_url = "u1"
    /\ ev_ret.link_validation_results[2].original_url = "u2"
    /\ ev_ret.link_validation_results[3].original_url = "u2"

C9_WitnessNoLinks ==
    /\ Returned
    /\ LinkCount = 0
    /\ ev_ret.link_validation_results = <<>>

\* C10: the report of a schema-valid input passes the output-schema check
\* that main applies to it: the seven fields, total in [0,120], the grade in
\* its enum, each sub-score within its cap (compliance 8, technical_quality
\* 4), the enums of severity and status, the counts non-negative.
C10_ReportConforms ==
    (Returned /\ ConformsInputSchema(ev_doc)) =>
        /\ jsonschema_validate(ev_ret, AuditOutputSchema) = "ok"
        /\ ReportFields \subseteq DOMAIN ev_ret
        /\ ev_ret.overall_score.total \in 0..120
        /\ ev_ret.overall_score.grade \in Grades
        /\ ev_ret.detailed_scores.seo_optimization <= 15
        /\ ev_ret.detailed_scores.content_quality <= 20
        /\ ev_ret.detailed_scores.affiliate_integration <= 20
        /\ ev_ret.detailed_scores.link_validity <= 15
        /\ ev_ret.detailed_scores.user_value <= 20
        /\ ev_ret.detailed_scores.compliance = 8
        /\ ev_ret.detailed_scores.conversion_potential <= 15
        /\ ev_ret.detailed_scores.technical_quality = 4

\* a report whose length- and link-derived sub-scores all sit at their caps
C10_Witness ==
    /\ Returned
    /\ ConformsInputSchema(ev_doc)
    /\ ev_ret.detailed_scores.content_quality = 20
    /\ ev_ret.detailed_scores.user_value = 20
    /\ ev_ret.detailed_scores.affiliate_integration = 20
    /\ ev_ret.detailed_scores.link_validity = 15
    /\ BodyLength > 1000
    /\ LinkCount = MaxLinks

(***************************************************************************)
(* The files main() reads, and load_schema.                                *)
(***************************************************************************)
Missing == [kind |-> "missing"]          \* open raises FileNotFoundError
BadJson == [kind |-> "badjson"]          \* json.load raises JSONDecodeError
Unreadable == [kind |-> "unreadable"]    \* open raises another OSError
Json(v) == [kind |-> "json", value |-> v]

\* How load_schema(path) ends on what the file holds: it returns the parsed
\* JSON, calls sys.exit(1) after a message (FileNotFoundError and
\* JSONDecodeError are caught), or ends with the exception it does not catch.
load_schema(file) ==
    CASE file.kind = "json" ->
             [kind |-> "return", value |-> file.value, stderr |-> <<>>]
      [] file.kind \in {"missing", "badjson"} ->
             [kind |-> "sys_exit", value |-> None, stderr |-> <<"Error loading schema">>]
      [] OTHER ->
             [kind |-> "exception", value |-> None, stderr |-> <<"Traceback">>]

(***************************************************************************)
(* main(): one run of the command-line driver.                             *)
(***************************************************************************)
InputSchemaFiles ==
    {Missing, BadJson, Unreadable} \cup
    {Json(s) : s \in {InvalidSchema, AcceptAll, RejectAll, AuditInputSchema}}

OutputSchemaFiles ==
    {Missing, BadJson, Unreadable} \cup
    {Json(s) : s \in {InvalidSchema, AcceptAll, RejectAll, AuditOutputSchema}}

MainContents ==
    {NoContent,
     GoodContent(0), GoodContent(1200), GoodContent(2000),
     Content("object", "string", JStr(40), "absent"),      \* no meta
     Content("object", "string", JStr(40), "incomplete"),  \* meta lacks a field
     Content("object", "absent", JStr(40), "complete"),    \* no title
     Content("object", "string", JAbsent, "complete"),     \* no body
     Content("object", "string", JNumber, "complete"),     \* body is a number
     Content("string", "absent", JAbsent, "absent")}       \* content is a string

MainAspLinks ==
    {NoLinks, LinkString(0), LinkString(15),
     LinkArray(<<>>),
     LinkArray(<<GoodLink("u1")>>),
     LinkArray(<<GoodLink("u2"), GoodLink("u1")>>),
     LinkArray(<<GoodLink("u1"), GoodLink(SurrogateUrl)>>),
     LinkArray(<<Link(NoUrl, "string", "integer")>>),
     LinkArray(<<Link("u1", "absent", "integer")>>),
     LinkArray(<<Link("u1", "string", "absent")>>)}

MainDocuments ==
    {ArrayDocument} \cup {Document(c, l) : c \in MainContents, l \in MainAspLinks}

InputFiles == {Missing, BadJson, Unreadable} \cup {Json(d) : d \in MainDocuments}

Init ==
    /\ pc = "load_input_schema"
    /\ args \in [validate_only : BOOLEAN, output : BOOLEAN, verbose : BOOLEAN]
    /\ files \in [input_schema : InputSchemaFiles,
                  output_schema : OutputSchemaFiles,
                  input : InputFiles]
    /\ out_openable \in BOOLEAN
    /\ (~args.output => out_openable)
    /\ input_schema = None
    /\ output_schema = None
    /\ input_data = None
    /\ valid = "pending"
    /\ out_valid = "pending"
    /\ result = None
    /\ stdout = <<>>
    /\ stderr = <<>>
    /\ out_file = "untouched"
    /\ exit_kind = "running"
    /\ exit_status = -1
    /\ now \in 0..MaxClock
    /\ tz = UTC
    /\ ev_doc = None
    /\ ev_ret = None
    /\ NoCalls

Verbose(msg) == IF args.verbose THEN <<msg>> ELSE <<>>

\* main() is at statement p and the run has not ended.
At(p) == pc = p /\ exit_kind = "running"

\* The run ends where it is: by main returning (status 0), by sys.exit(1), or
\* by an exception nothing catches (the interpreter prints it and exits with 1).
Terminate(kind) ==
    /\ pc' = pc
    /\ exit_kind' = kind
    /\ exit_status' = IF kind = "return" THEN 0 ELSE 1

Continue(next) ==
    /\ pc' = next
    /\ UNCHANGED <<exit_kind, exit_status>>

\* lines 116-121: the verbose banner, then input_schema = load_schema(...)
Main_LoadInputSchema ==
    /\ At("load_input_schema")
    /\ LET r == load_schema(files.input_schema)
       IN  /\ stderr' = stderr \o Verbose("Loading input schema from")
                               \o Verbose("Loading output schema from")
                               \o r.stderr
           /\ input_schema' = r.value
           /\ IF r.kind = "return"
              THEN Continue("load_output_schema")
              ELSE Terminate(r.kind)
    /\ UNCHANGED <<args, files, out_openable, output_schema, input_data, valid,
                   out_valid, result, stdout, out_file, clock_vars,
                   ev_vars, call_vars>>

\* line 122: output_schema = load_schema(...)
Main_LoadOutputSchema ==
    /\ At("load_output_schema")
    /\ LET r == load_schema(files.output_schema)
       IN  /\ stderr' = stderr \o r.stderr
           /\ output_schema' = r.value
           /\ IF r.kind = "return"
              THEN Continue("load_input")
              ELSE Terminate(r.kind)
    /\ UNCHANGED <<args, files, out_openable, input_schema, input_data, valid,
                   out_valid, result, stdout, out_file, clock_vars,
                   ev_vars, call_vars>>

\* mutant: the except branch of the input load exits with status 0
Main_LoadInput_ExitZero ==
    /\ At("load_input")
    /\ CASE files.input.kind = "json" ->
                /\ input_data' = files.input.value
                /\ stderr' = stderr
                /\ Continue("validate_input")
         [] files.input.kind \in {"missing", "badjson"} ->
                /\ input_data' = input_data
                /\ stderr' = stderr \o <<"Error loading input file">>
                /\ pc' = pc
                /\ exit_kind' = "sys_exit"
                /\ exit_status' = 0
         [] OTHER ->
                /\ input_data' = input_data
                /\ stderr' = stderr \o <<"Traceback">>
                /\ Terminate("exception")
    /\ UNCHANGED <<args, files, out_openable, input_schema, output_schema, valid,
                   out_valid, result, stdout, out_file, clock_vars,
                   ev_vars, call_vars>>

\* lines 125-130: input_data = json.load(f), FileNotFoundError and
\* JSONDecodeError caught and turned into sys.exit(1)
Main_LoadInput ==
    /\ At("load_input")
    /\ CASE files.input.kind = "json" ->
                /\ input_data' = files.input.value
                /\ stderr' = stderr
                /\ Continue("validate_input")
         [] files.input.kind \in {"missing", "badjson"} ->
                /\ input_data' = input_data
                /\ stderr' = stderr \o <<"Error loading input file">>
                /\ Terminate("sys_exit")
         [] OTHER ->
                /\ input_data' = input_data
                /\ stderr' = stderr \o <<"Traceback">>
                /\ Terminate("exception")
    /\ UNCHANGED <<args, files, out_openable, input_schema, output_schema, valid,
                   out_valid, result, stdout, out_file, clock_vars,
                   ev_vars, call_vars>>

\* mutant: the result of validate_input is not inspected
Main_ValidateInput_NoAbort ==
    /\ At("validate_input")
    /\ valid' = validate_input(input_data, input_schema)
    /\ CASE valid' \in {"True", "False"} ->
                /\ stderr' = stderr \o validate_input_stderr(input_data, input_schema)
                                    \o Verbose("Input validation passed")
                /\ Continue("validate_only")
         [] OTHER ->
                /\ stderr' = stderr \o <<"Traceback">>
                /\ Terminate("exception")
    /\ UNCHANGED <<args, files, out_openable, input_schema, output_schema,
                   input_data, out_valid, result, stdout, out_file, clock_vars,
                   ev_vars, call_vars>>

\* lines 132-136: if not validate_input(input_data, input_schema): sys.exit(1)
Main_ValidateInput ==
    /\ At("validate_input")
    /\ valid' = validate_input(input_data, input_schema)
    /\ CASE valid' = "True" ->
                /\ stderr' = stderr \o Verbose("Input validation passed")
                /\ Continue("validate_only")
         [] valid' = "False" ->
                /\ stderr' = stderr \o validate_input_stderr(input_data, input_schema)
                /\ Terminate("sys_exit")
         [] OTHER ->
                /\ stderr' = stderr \o <<"Traceback">>
                /\ Terminate("exception")
    /\ UNCHANGED <<args, files, out_openable, input_schema, output_schema,
                   input_data, out_valid, result, stdout, out_file, clock_vars,
                   ev_vars, call_vars>>

\* lines 138-144: with --validate-only print the confirmation and return
Main_ValidateOnly ==
    /\ At("validate_only")
    /\ IF args.validate_only
       THEN /\ stdout' = stdout \o <<"Validation complete - input is valid">>
            /\ stderr' = stderr
            /\ Terminate("return")
       ELSE /\ stdout' = stdout
            /\ stderr' = stderr \o Verbose("Starting content evaluation...")
            /\ Continue("evaluate")
    /\ UNCHANGED <<args, files, out_openable, input_schema, output_schema,
                   input_data, valid, out_valid, result, out_file, clock_vars,
                   ev_vars, call_vars>>

\* line 146: result = mock_evaluate_content(input_data)
Main_Evaluate ==
    /\ At("evaluate")
    /\ LET r == mock_evaluate_content(input_data, datetime_now(now, tz))
       IN  IF r.kind = "report"
           THEN /\ result' = r
                /\ stderr' = stderr
                /\ Continue("validate_output")
           ELSE /\ result' = result
                /\ stderr' = stderr \o <<"Traceback">>
                /\ Terminate("exception")
    /\ UNCHANGED <<args, files, out_openable, input_schema, output_schema,
                   input_data, valid, out_valid, stdout, out_file, clock_vars,
                   ev_vars, call_vars>>

\* lines 149-155: jsonschema.validate(instance=result, schema=output_schema),
\* ValidationError caught and turned into sys.exit(1)
Main_ValidateOutput ==
    /\ At("validate_output")
    /\ out_valid' = jsonschema_validate(result, output_schema)
    /\ CASE out_valid' = "ok" ->
                /\ stderr' = stderr \o Verbose("Output validation passed")
                /\ Continue("output")
         [] out_valid' = "ValidationError" ->
                /\ stderr' = stderr \o <<"Output validation error">>
                /\ Terminate("sys_exit")
         [] OTHER ->
                /\ stderr' = stderr \o <<"Traceback">>
                /\ Terminate("exception")
    /\ UNCHANGED <<args, files, out_openable, input_schema, output_schema,
                   input_data, valid, result, stdout, out_file, clock_vars,
                   ev_vars, call_vars>>

\* Whether the utf-8 codec encodes the serialized report: with
\* ensure_ascii=False its strings are written as they are.
ReportEncodable(r) ==
    \A i \in 1..Len(r.link_validation_results) :
        Utf8Encodable(r.link_validation_results[i].original_url)

\* lines 158-164: write the report to the output file, or print it.  open(...,
\* 'w') truncates the file; json.dump then writes the report piece by piece
\* and the codec raises at the first string it cannot encode.
Main_Output ==
    /\ At("output")
    /\ IF args.output
       THEN /\ stdout' = stdout
            /\ CASE ~out_openable ->
                        /\ out_file' = out_file
                        /\ stderr' = stderr \o <<"Traceback">>
                        /\ Terminate("exception")
                 [] out_openable /\ ~ReportEncodable(result) ->
                        /\ out_file' = "partial"
                        /\ stderr' = stderr \o <<"Traceback">>
                        /\ Terminate("exception")
                 [] OTHER ->
                        /\ out_file' = "full"
                        /\ stderr' = stderr \o Verbose("Results written to")
                        /\ Terminate("return")
       ELSE /\ out_file' = out_file
            /\ IF ReportEncodable(result)
               THEN /\ stdout' = stdout \o <<"report">>
                    /\ stderr' = stderr
                    /\ Terminate("return")
               ELSE /\ stdout' = stdout
                    /\ stderr' = stderr \o <<"Traceback">>
                    /\ Terminate("exception")
    /\ UNCHANGED <<args, files, out_openable, input_schema, output_schema,
                   input_data, valid, out_valid, result, clock_vars,
                   ev_vars, call_vars>>

Next ==
    \/ Main_LoadInputSchema
    \/ Main_LoadOutputSchema
    \/ Main_LoadInput
    \/ Main_ValidateInput
    \/ Main_ValidateOnly
    \/ Main_Evaluate
    \/ Main_ValidateOutput
    \/ Main_Output

Spec == Init /\ [][Next]_vars

(***************************************************************************)
(* Properties of main(), checked under Spec.                               *)
(***************************************************************************)
Ended == exit_kind # "running"
SchemaLoadFails == files.input_schema.kind # "json" \/ files.output_schema.kind # "json"
InputParseFails == files.input.kind # "json"
InputValidationFails == valid \in {"False", "raised"}
OutputValidationFails == out_valid \in {"ValidationError", "SchemaError"}

\* mock_evaluate_content is about to be called, or has been called
AtOrPastScoring ==
    \/ pc \in {"evaluate", "validate_output", "output"}
    \/ result # None

Printed(stream, msg) == \E i \in 1..Len(stream) : stream[i] = msg
Delivered == out_file = "full" \/ Printed(stdout, "report")
ConfirmationPrinted == Printed(stdout, "Validation complete - input is valid")

\* C1: the scoring engine is invoked only after both schemas were loaded, the
\* input file was parsed and validate_input returned true; a run in which
\* schema loading, input parsing or input validation fails never scores and
\* ends with a non-zero status.
C1_ScoringOnlyAfterValidation ==
    /\ AtOrPastScoring =>
          /\ files.input_schema.kind = "json" /\ input_schema = files.input_schema.value
          /\ files.output_schema.kind = "json" /\ output_schema = files.output_schema.value
          /\ files.input.kind = "json" /\ input_data = files.input.value
          /\ valid = "True"
    /\ (SchemaLoadFails \/ InputParseFails \/ InputValidationFails) =>
          /\ ~AtOrPastScoring
          /\ Ended => exit_status # 0 /\ exit_kind \in {"sys_exit", "exception"}

C1_Witness ==
    /\ pc = "validate_output"
    /\ result # None
    /\ valid = "True"
    /\ input_schema = AuditInputSchema

\* C2: a report is delivered (printed or written) only if it passed the
\* output-schema validation; a run that ends in a fatal condition does not
\* write the output file; the output file holds the full valid report or is
\* untouched.
C2_OutputAllOrNothing ==
    /\ Delivered => out_valid = "ok"
    /\ (Ended /\ (SchemaLoadFails \/ InputParseFails \/ InputValidationFails
                    \/ OutputValidationFails)) => out_file = "untouched"
    /\ out_file \in {"untouched", "full"}

\* C3: the exit status is 0 exactly when the run succeeded (report delivered
\* or validate-only confirmation printed) and non-zero for every schema-load,
\* input-parse, input-validation or output-validation failure.
C3_ExitStatus ==
    Ended =>
        /\ exit_status = 0 <=> (Delivered \/ ConfirmationPrinted)
        /\ (SchemaLoadFails \/ InputParseFails \/ InputValidationFails
              \/ OutputValidationFails) => exit_status # 0

C3_Witness ==
    /\ Ended
    /\ files.input = Missing
    /\ pc = "load_input"
    /\ exit_status = 1

\* C4: validate_input never throws: on every document and every schema it
\* returns a boolean, false together with a diagnostic on the error stream,
\* and leaves document and schema as they were.
C4_ValidateInputNeverThrows ==
    /\ valid \in {"pending", "True", "False"}
    /\ valid = "False" => Printed(stderr, "Input validation error")
    /\ valid # "pending" =>
          input_data = files.input.value /\ input_schema = files.input_schema.value

\* The document as the claim reads it.
HasContent(d) == d.kind = "object" /\ d.content.kind # "absent"
HasAspLinks(d) == d.kind = "object" /\ d.asp_links.kind # "absent"
HasMeta(d) == HasContent(d) /\ d.content.meta # "absent"
AspLinksIsSequence(d) == HasAspLinks(d) /\ d.asp_links.kind = "array"
HasAllRequired(d) ==
    /\ HasContent(d) /\ d.content.kind = "object"
    /\ d.content.title = "string" /\ d.content.body.kind = "string"
    /\ d.content.meta = "complete"
    /\ HasAspLinks(d)
    /\ \A i \in 1..Len(d.asp_links.items) :
          /\ d.asp_links.items[i].url # NoUrl
          /\ d.asp_links.items[i].product_name = "string"
          /\ d.asp_links.items[i].priority = "integer"

\* C5: against the input schema validate_input returns false for a document
\* without content, without asp_links, without content.meta, or whose
\* asp_links is not a sequence, and true for a document with all required
\* fields and asp_links a sequence, the empty one included.
C5_InputSchemaVerdicts ==
    (valid # "pending" /\ input_schema = AuditInputSchema) =>
        /\ (~HasContent(input_data) \/ ~HasAspLinks(input_data) \/ ~HasMeta(input_data)
              \/ ~AspLinksIsSequence(input_data)) => valid = "False"
        /\ (HasAllRequired(input_data) /\ AspLinksIsSequence(input_data)) => valid = "True"

C5_Witness ==
    /\ input_schema = AuditInputSchema
    /\ input_data = Document(GoodContent(1200), LinkString(15))
    /\ valid = "False"

C5_WitnessEmptySequence ==
    /\ input_schema = AuditInputSchema
    /\ input_data = Document(GoodContent(1200), LinkArray(<<>>))
    /\ valid = "True"

\* C11: a run with the validate-only flag on a schema-valid input prints the
\* plain confirmation, never invokes the scoring engine, delivers no report,
\* and ends through a clean exit condition: an exit (SystemExit) whose code
\* is None, which the interpreter turns into status 0.
C11_ValidateOnlyCleanExit ==
    (Ended /\ args.validate_only /\ valid = "True") =>
        /\ ConfirmationPrinted
        /\ result = None
        /\ pc = "validate_only"
        /\ ~Delivered
        /\ exit_status = 0
        /\ exit_kind = "sys_exit"

(***************************************************************************)
(* Monotonicity of the total in the body length, checked under             *)
(* SpecMonotone: a direct call on a document, compared with the engine's   *)
(* result on every document that differs from it only by a shorter body.   *)
(***************************************************************************)
\* asp_links of every length 0..max (the urls play no part in the scores)
LinkRuns(max) == {[i \in 1..k |-> GoodLink("u1")] : k \in 0..max}

MonotoneDocuments ==
    {Document(GoodContent(n), LinkArray(s)) :
        n \in EvalBodyLens, s \in LinkRuns(MaxLinks)}

InitMonotone ==
    /\ MainIdle
    /\ now = 0
    /\ tz = UTC
    /\ ev_doc \in MonotoneDocuments
    /\ ev_ret = None
    /\ NoCalls

SpecMonotone == InitMonotone /\ [][NextEvaluate]_vars

\* the document ev_doc with its body replaced by one of length m
WithBodyLength(m) == Document(GoodContent(m), ev_doc.asp_links)

TotalOf(d) == mock_evaluate_content(d, datetime_now(now, tz)).overall_score.total

\* C12: of two documents with the same asp_links that differ only in the
\* length of content.body, the one with the strictly longer body gets a total
\* greater than or equal to the other's.
C12_TotalMonotoneInBodyLength ==
    Returned =>
        \A m \in EvalBodyLens :
            m < BodyLength => TotalOf(WithBodyLength(m)) <= ev_ret.overall_score.total

\* a longer body that scores strictly higher, and one that scores the same
C12_Witness ==
    /\ Returned
    /\ BodyLength = 1200
    /\ LinkCount = 1
    /\ TotalOf(WithBodyLength(1199)) < ev_ret.overall_score.total
    /\ TotalOf(WithBodyLength(1180)) = TotalOf(WithBodyLength(1199))

(***************************************************************************)
(* Calls of create_audit_id while the clock advances, as                   *)
(* TestCreateAuditId makes them.                                           *)
(***************************************************************************)
MaxAdvance == 4         \* seconds the clock is followed after each start
MaxIds == 2             \* audit ids generated in one behaviour

\* two seconds before New York's clocks are set back, and the instants one
\* hour later
ClockStart == NewYork.transition - 2
AuditInstants ==
    {ClockStart + k : k \in 0..MaxAdvance}
        \cup {ClockStart + 3600 + k : k \in 0..MaxAdvance}

InitAuditId ==
    /\ MainIdle
    /\ now = ClockStart
    /\ tz \in Zones
    /\ ev_doc = None
    /\ ev_ret = None
    /\ NoCalls

\* id = create_audit_id()
GenerateId ==
    /\ Len(ids) < MaxIds
    /\ ids' = Append(ids, [id |-> create_audit_id(datetime_now(now, tz)), at |-> now])
    /\ UNCHANGED <<main_vars, clock_vars, ev_vars, calls>>

\* time passes (time.sleep, or the time between two invocations)
ClockAdvance ==
    /\ \E t \in AuditInstants :
          /\ t > now
          /\ now' = t
    /\ UNCHANGED <<main_vars, tz, ev_vars, call_vars>>

NextAuditId ==
    \/ GenerateId
    \/ ClockAdvance

SpecAuditId == InitAuditId /\ [][NextAuditId]_vars

\* C13: two audit ids generated at least one second apart are distinct, and
\* every audit id is "audit_" followed by 14 digits, 20 characters in all.
C13_AuditIdsDistinct ==
    /\ \A i, j \in 1..Len(ids) :
          ids[j].at - ids[i].at >= 1 => ids[i].id # ids[j].id
    /\ \A i \in 1..Len(ids) :
          /\ ids[i].id.prefix = "audit_"
          /\ Len(ids[i].id.digits) = 14
          /\ \A k \in 1..Len(ids[i].id.digits) : ids[i].id.digits[k] \in 0..9
          /\ AuditPrefixLen + Len(ids[i].id.digits) = 20

(***************************************************************************)
(* Concurrent calls of mock_evaluate_content: each call executes the       *)
(* statements of the function in order, on its own locals; the calls are   *)
(* interleaved statement by statement and the clock may advance between    *)
(* any two statements.                                                     *)
(***************************************************************************)
MaxCalls == 2           \* calls running at once

ConcurrentDocuments ==
    {Document(GoodContent(2000), LinkArray(<<GoodLink("u2"), GoodLink("u1")>>)),
     Document(GoodContent(1650), NoLinks),
     Document(Content("object", "string", JNumber, "complete"), LinkArray(<<>>)),
     Document(GoodContent(40), LinkArray(<<Link(NoUrl, "string", "integer")>>))}

\* a call that has not executed its first statement: the locals are unbound
NewCall(d) ==
    [doc |-> d, pc |-> "line40",
     content_length |-> -1, asp_links_count |-> -1,
     base_score |-> -1, link_score |-> -1, total_score |-> -1,
     grade |-> "unbound", audit_id |-> None, timestamp |-> None, ret |-> None]

InitConcurrent ==
    /\ MainIdle
    /\ now = 0
    /\ tz = UTC
    /\ ev_doc = None
    /\ ev_ret = None
    /\ ids = <<>>
    /\ calls \in [1..MaxCalls -> {NewCall(d) : d \in ConcurrentDocuments}]

CallAt(i, p) == i \in DOMAIN calls /\ calls[i].pc = p

\* the call ends with the exception its statement raises
Raise(i) == calls' = [calls EXCEPT ![i].pc = "raised"]

OtherUnchanged == UNCHANGED <<main_vars, clock_vars, ev_vars, ids>>

\* mutant: content_length kept in one module-level variable that every call
\* writes and reads
Call_ContentLength_Global(i) ==
    /\ CallAt(i, "line40")
    /\ IF \/ calls[i].doc.kind # "object"
          \/ calls[i].doc.content.kind \notin {"absent", "object"}
          \/ calls[i].doc.content.kind = "object"
                /\ calls[i].doc.content.body.kind = "number"
       THEN Raise(i)
       ELSE calls' = [j \in DOMAIN calls |->
                        [calls[j] EXCEPT
                            !.content_length = content_length(calls[i].doc),
                            !.pc = IF j = i THEN "line41" ELSE @]]
    /\ OtherUnchanged

\* line 40: content_length = len(input_data.get('content', {}).get('body', ''))
Call_ContentLength(i) ==
    /\ CallAt(i, "line40")
    /\ IF \/ calls[i].doc.kind # "object"
          \/ calls[i].doc.content.kind \notin {"absent", "object"}
          \/ calls[i].doc.content.kind = "object"
                /\ calls[i].doc.content.body.kind = "number"
       THEN Raise(i)
       ELSE calls' = [calls EXCEPT ![i] =
                        [@ EXCEPT !.content_length = content_length(calls[i].doc),
                                  !.pc = "line41"]]
    /\ OtherUnchanged

\* line 41: asp_links_count = len(input_data.get('asp_links', []))
Call_AspLinksCount(i) ==
    /\ CallAt(i, "line41")
    /\ calls' = [calls EXCEPT ![i] =
                    [@ EXCEPT !.asp_links_count = asp_links_count(calls[i].doc),
                              !.pc = "line44"]]
    /\ OtherUnchanged

\* lines 44-46: base_score, link_score, total_score from the two locals
Call_Scores(i) ==
    /\ CallAt(i, "line44")
    /\ LET b == Min(80, calls[i].content_length \div 20)
           l == Min(20, calls[i].asp_links_count * 5)
       IN  calls' = [calls EXCEPT ![i] =
                        [@ EXCEPT !.base_score = b, !.link_score = l,
                                  !.total_score = b + l, !.pc = "line49"]]
    /\ OtherUnchanged

\* lines 48-58: grade from total_score
Call_Grade(i) ==
    /\ CallAt(i, "line49")
    /\ calls' = [calls EXCEPT ![i] =
                    [@ EXCEPT !.grade = grade_of(calls[i].total_score),
                              !.pc = "line61"]]
    /\ OtherUnchanged

\* line 61: "audit_id": create_audit_id()
Call_AuditId(i) ==
    /\ CallAt(i, "line61")
    /\ calls' = [calls EXCEPT ![i] =
                    [@ EXCEPT !.audit_id = create_audit_id(datetime_now(now, tz)),
                              !.pc = "line62"]]
    /\ OtherUnchanged

\* line 62: "timestamp": datetime.now().isoformat()
Call_Timestamp(i) ==
    /\ CallAt(i, "line62")
    /\ calls' = [calls EXCEPT ![i] =
                    [@ EXCEPT !.timestamp =
                                  [kind |-> "string", iso |-> datetime_now(now, tz)],
                              !.pc = "line63"]]
    /\ OtherUnchanged

\* lines 63-100: the rest of the returned dict, built from the locals and
\* from input_data.get('asp_links', []); link["url"] raises on a link without
\* url and on a character of a string
Call_Return(i) ==
    /\ CallAt(i, "line63")
    /\ LET c == calls[i]
           d == c.doc
       IN  IF \/ d.asp_links.kind = "string" /\ d.asp_links.len > 0
              \/ d.asp_links.kind = "array" /\
                    \E k \in 1..Len(d.asp_links.items) : d.asp_links.items[k].url = NoUrl
           THEN Raise(i)
           ELSE calls' = [calls EXCEPT ![i] =
                    [@ EXCEPT
                       !.pc = "returned",
                       !.ret =
                         [kind |-> "report",
                          audit_id |-> c.audit_id,
                          timestamp |-> c.timestamp,
                          overall_score |->
                              [total |-> c.total_score,
                               grade |-> c.grade,
                               auto_publish_eligible |-> c.total_score >= 114],
                          detailed_scores |->
                              [seo_optimization |-> Min(15, c.total_score \div 8),
                               content_quality |-> Min(20, c.content_length \div 50),
                               affiliate_integration |-> Min(20, c.asp_links_count * 4),
                               link_validity |-> Min(15, c.asp_links_count * 3),
                               user_value |-> Min(20, c.content_length \div 40),
                               compliance |-> 8,
                               conversion_potential |-> Min(15, c.asp_links_count * 3),
                               technical_quality |-> 4],
                          improvements |-> improvements,
                          link_validation_results |-> link_validation_results(d),
                          metadata |->
                              [evaluator_version |-> "1.0.0",
                               processing_time_seconds |-> [kind |-> "number", tenths |-> 12],
                               ai_model_used |-> "mock-evaluator",
                               content_length |-> c.content_length]]]]
    /\ OtherUnchanged

\* the system clock moves on by a second
ClockTick ==
    /\ now < MaxClock
    /\ now' = now + 1
    /\ UNCHANGED <<main_vars, tz, ev_vars, call_vars>>

NextConcurrent ==
    \/ \E i \in DOMAIN calls : Call_ContentLength(i)
    \/ \E i \in DOMAIN calls : Call_AspLinksCount(i)
    \/ \E i \in DOMAIN calls : Call_Scores(i)
    \/ \E i \in DOMAIN calls : Call_Grade(i)
    \/ \E i \in DOMAIN calls : Call_AuditId(i)
    \/ \E i \in DOMAIN calls : Call_Timestamp(i)
    \/ \E i \in DOMAIN calls : Call_Return(i)
    \/ ClockTick

SpecConcurrent == InitConcurrent /\ [][NextConcurrent]_vars

\* what the call returns when it runs alone on its document, with the clock
\* at the reading its audit id was made from
AloneAt(c, t) == mock_evaluate_content(c.doc, t)

\* the clock reading a call's audit id was formatted from, when both of its
\* readings of the clock were the same
SameReading(c, t) ==
    /\ c.audit_id = create_audit_id(t)
    /\ c.timestamp = [kind |-> "string", iso |-> t]

ClockReadings == {datetime_now(t, tz) : t \in 0..MaxClock}

\* C14: under every interleaving of concurrent calls each call returns the
\* scores, grade, sub-scores, improvements, link_validation_results and
\* metadata that it returns when run alone on its document (and raises exactly
\* when it raises alone); with one clock reading for the whole call the entire
\* report is the one the document alone determines.
C14_CallsIndependent ==
    \A i \in DOMAIN calls :
        /\ calls[i].pc = "raised" => EvalRaises(calls[i].doc)
        /\ calls[i].pc = "returned" =>
              /\ ~EvalRaises(calls[i].doc)
              /\ \A t \in ClockReadings :
                    LET alone == AloneAt(calls[i], t)
                    IN  /\ calls[i].ret.overall_score = alone.overall_score
                        /\ calls[i].ret.detailed_scores = alone.detailed_scores
                        /\ calls[i].ret.improvements = alone.improvements
                        /\ calls[i].ret.link_validation_results
                              = alone.link_validation_results
                        /\ calls[i].ret.metadata = alone.metadata
                        /\ SameReading(calls[i], t) => calls[i].ret = alone

\* two calls on different documents have both returned, the second one having
\* read the clock once, after the first had started
C14_Witness ==
    /\ Len(calls) >= 2
    /\ calls[1].pc = "returned"
    /\ calls[2].pc = "returned"
    /\ calls[1].doc # calls[2].doc
    /\ calls[1].ret.overall_score.total # calls[2].ret.overall_score.total
    /\ SameReading(calls[2], datetime_now(MaxClock, tz))
    /\ calls[2].ret = AloneAt(calls[2], datetime_now(MaxClock, tz))

====
